---- MODULE Spec2Model ----
(***************************************************************************)
(* Model of the registration and stake reconciliation of the Allora        *)
(* offchain node: lib/repo_tx_registration.go.                             *)
(*                                                                         *)
(* RegisterWorkerIdempotently and RegisterAndStakeReputerIdempotently are  *)
(* sequences of blocking ledger calls.  Every blocking call is one step of *)
(* the calling goroutine; the ledger (registration, stake, funds, fee) is  *)
(* shared by all goroutines.  Each call keeps the list of the ledger       *)
(* operations it has issued (trace), which is what the properties below    *)
(* are stated over.                                                        *)
(***************************************************************************)
EXTENDS Integers, Sequences, FiniteSets, TLC

\* ------------------------------------------------------------------ bounds
MaxStake == 2
MaxFunds == 2

\* ------------------------------------------------------------- value sets
Procs     == {1, 2}
Addrs     == {"a1", "a2"}
Topics    == {1, 2}
Roles     == {"Worker", "Reputer"}
Stakes    == 0..MaxStake
MinStakes == (0 - 1)..MaxStake
Fees      == 1..MaxFunds
Funds     == 0..MaxFunds

NoCall == [role |-> "none", TopicId |-> 0, MinStake |-> 0, ret |-> FALSE, writes |-> 0]

VARIABLES
  node,             \* NodeConfig: Chain.Address and Wallet.Address
  sched,            \* the scheduler: who calls what, and how the ledger behaves
  registered,       \* ledger: set of <<address, role, topic>>
  stakeOf,          \* ledger: stake of <<address, topic>>
  funds,            \* ledger: spendable balance of the node account
  registrationFee,  \* ledger: Params.RegistrationFee
  pc,               \* position of each goroutine in its call
  config,           \* WorkerConfig / ReputerConfig of the running call
  moduleParams,     \* local: fee read by GetParams
  balance,          \* local: balance read by GetBalance
  stake,            \* local: stake read by GetReputerStakeInTopic
  result,           \* value returned by the call
  trace,            \* ledger operations issued by the running call
  prev              \* the previous call of the goroutine

vars == <<node, sched, registered, stakeOf, funds, registrationFee,
          pc, config, moduleParams, balance, stake, result, trace, prev>>

ledgerVars == <<registered, stakeOf, funds, registrationFee>>
nodeVars   == <<node, sched>>

\* ------------------------------------------------------- trace operations
ReadKinds  == {"IsRegistered", "GetParams", "GetBalance", "GetStake"}
WriteKinds == {"Register", "AddStake"}

\* A query: ok is err == nil, bval / nval the value returned.
ReadOp(kind, role, topic, addr, ok, bval, nval) ==
  [kind |-> kind, role |-> role, topic |-> topic, sender |-> addr, owner |-> addr,
   amount |-> 0, ok |-> ok, bval |-> bval, nval |-> nval]

\* variant: IsReputer left at its zero value
RegisterRequestAsWorker(sender, topic, owner, isReputer, ok) ==
  [kind |-> "Register", role |-> "Worker",
   topic |-> topic, sender |-> sender, owner |-> owner,
   amount |-> 0, ok |-> ok, bval |-> FALSE, nval |-> 0]

\* emissionstypes.RegisterRequest handed to SendDataWithRetry
RegisterRequest(sender, topic, owner, isReputer, ok) ==
  [kind |-> "Register", role |-> IF isReputer THEN "Reputer" ELSE "Worker",
   topic |-> topic, sender |-> sender, owner |-> owner,
   amount |-> 0, ok |-> ok, bval |-> FALSE, nval |-> 0]

\* variant: the topic of the message is a fixed topic, not config.TopicId
AddStakeRequestFirstTopic(sender, amount, topic, ok) ==
  [kind |-> "AddStake", role |-> "Reputer", topic |-> 1, sender |-> sender,
   owner |-> sender, amount |-> amount, ok |-> ok, bval |-> FALSE, nval |-> 0]

\* emissionstypes.AddStakeRequest handed to SendDataWithRetry
AddStakeRequest(sender, amount, topic, ok) ==
  [kind |-> "AddStake", role |-> "Reputer", topic |-> topic, sender |-> sender,
   owner |-> sender, amount |-> amount, ok |-> ok, bval |-> FALSE, nval |-> 0]

IsWrite(op) == op.kind \in WriteKinds
IsRead(op)  == op.kind \in ReadKinds

\* ------------------------------------------------------------ the ledger
\* IsWorkerRegistered / IsReputerRegistered: registration of the node address
IsRegisteredOnLedger(role, topic) == <<node.Chain.Address, role, topic>> \in registered

\* GetReputerStakeInTopic(topicId, address)
StakeOnLedger(topic, addr) == stakeOf[<<addr, topic>>]

\* A register message that lands registers its owner and costs the fee.
CanLandRegister == funds >= registrationFee

LandRegister(owner, role, topic) ==
  /\ registered' = registered \cup {<<owner, role, topic>>}
  /\ funds' = funds - registrationFee
  /\ UNCHANGED <<stakeOf, registrationFee>>

\* An add-stake message that lands adds k (all or part of the amount) to the
\* sender's stake in the topic.
LandAddStake(sender, topic, k) ==
  /\ stakeOf' = [stakeOf EXCEPT ![<<sender, topic>>] = @ + k]
  /\ UNCHANGED <<registered, funds, registrationFee>>

\* ------------------------------------------------------------ the scheduler
\* One goroutine that calls either operation for any topic and any MinStake,
\* any number of times, against a ledger whose reads may fail and whose writes
\* may be lost or partly applied.
Sequential ==
  [live |-> {1}, topics |-> [p \in Procs |-> Topics], roles |-> Roles,
   minStakes |-> MinStakes, oneShot |-> FALSE, reliable |-> FALSE]

\* err != nil of a query
ReadErrors == IF sched.reliable THEN {FALSE} ELSE BOOLEAN

\* whether a submitted register message is applied by the ledger
Landings == IF sched.reliable THEN {TRUE} ELSE BOOLEAN

\* how much of a submitted add-stake amount the ledger applies, the stake of
\* the model being capped at MaxStake
Room(sender, topic) == MaxStake - StakeOnLedger(topic, sender)

Applied(amount, room) ==
  LET most == IF amount <= room THEN amount ELSE room
  IN IF sched.reliable THEN {most} ELSE 0..most

\* ------------------------------------------------------------- initial state
Init ==
  /\ node \in [Chain : [Address : {"a1"}], Wallet : [Address : Addrs]]
  /\ sched = Sequential
  /\ registered = {}
  /\ stakeOf = [k \in Addrs \X Topics |-> 0]
  /\ funds \in Funds
  /\ registrationFee \in Fees
  /\ pc = [p \in Procs |-> "idle"]
  /\ config = [p \in Procs |-> [role |-> "none", TopicId |-> 0, MinStake |-> 0]]
  /\ moduleParams = [p \in Procs |-> 0]
  /\ balance = [p \in Procs |-> 0]
  /\ stake = [p \in Procs |-> 0]
  /\ result = [p \in Procs |-> FALSE]
  /\ trace = [p \in Procs |-> <<>>]
  /\ prev = [p \in Procs |-> NoCall]

\* ------------------------------------------------------------- step helpers
Goto(p, label) == pc' = [pc EXCEPT ![p] = label] /\ UNCHANGED result

Return(p, value) ==
  /\ pc' = [pc EXCEPT ![p] = "done"]
  /\ result' = [result EXCEPT ![p] = value]

Log(p, op) == trace' = [trace EXCEPT ![p] = Append(@, op)]

NumWrites(tr) == Cardinality({i \in DOMAIN tr : IsWrite(tr[i])})

\* ---------------------------------------------------------- decision logic
\* variant: the operands of the comparison swapped
FeeGTE(b, fee) == fee >= b

\* balance.GTE(moduleParams.Params.RegistrationFee)
BalanceGTE(b, fee) == b >= fee

\* variant: the comparison reversed
MinStakeGTE(minStake, s) == minStake >= s

\* variant: strict comparison, a stake equal to MinStake is topped up
MinStakeLT(minStake, s) == minStake < s

\* minStake.LTE(stake)
MinStakeLTE(minStake, s) == minStake <= s

\* variant: the full MinStake instead of the difference
FullMinStake(minStake, s) == minStake

\* minStake.Sub(stake)
StakeToAdd(minStake, s) == minStake - s

\* variant: a stake equal to MinStake counts as too low
StakeLTE(s, minStake) == s <= minStake

\* stake.LT(minStake)
StakeLT(s, minStake) == s < minStake

\* variant: the early return is missing
NeverAlreadyRegistered(isRegistered) == FALSE

\* if isRegistered { return true }: the worker's early return
AlreadyRegistered(isRegistered) == isRegistered

\* variant: the check after registering is missing
NeverNotRegistered(isRegistered) == FALSE

\* if !isRegistered { return false }: the reputer's check after registering
NotRegisteredAfterAllRetries(isRegistered) == ~isRegistered

\* ------------------------------------------------- RegisterWorkerIdempotently
\* The scheduler invokes worker reconciliation for a configured topic.
CallWorker(p) ==
  /\ p \in sched.live /\ pc[p] = "idle"
  /\ "Worker" \in sched.roles
  /\ sched.oneShot => prev[p] = NoCall
  /\ \E t \in sched.topics[p] :
       config' = [config EXCEPT ![p] = [role |-> "Worker", TopicId |-> t, MinStake |-> 0]]
  /\ pc' = [pc EXCEPT ![p] = "w_isreg"]
  /\ trace' = [trace EXCEPT ![p] = <<>>]
  /\ UNCHANGED <<nodeVars, ledgerVars, moduleParams, balance, stake, result, prev>>

\* node.IsWorkerRegistered(config.TopicId) and the branch on its result
WorkerIsRegistered(p) ==
  /\ p \in sched.live /\ pc[p] = "w_isreg"
  /\ \E err \in ReadErrors :
       LET isRegistered == IsRegisteredOnLedger("Worker", config[p].TopicId) IN
       /\ Log(p, ReadOp("IsRegistered", "Worker", config[p].TopicId,
                        node.Chain.Address, ~err, (~err) /\ isRegistered, 0))
       /\ IF err THEN Return(p, FALSE)
          ELSE IF AlreadyRegistered(isRegistered) THEN Return(p, TRUE)
          ELSE Goto(p, "w_params")
  /\ UNCHANGED <<nodeVars, ledgerVars, config, moduleParams, balance, stake, prev>>

\* node.Chain.EmissionsQueryClient.GetParams
WorkerGetParams(p) ==
  /\ p \in sched.live /\ pc[p] = "w_params"
  /\ \E err \in ReadErrors :
       /\ Log(p, ReadOp("GetParams", "Worker", config[p].TopicId,
                        node.Chain.Address, ~err, FALSE, IF err THEN 0 ELSE registrationFee))
       /\ IF err THEN Return(p, FALSE) /\ UNCHANGED moduleParams
          ELSE /\ moduleParams' = [moduleParams EXCEPT ![p] = registrationFee]
               /\ Goto(p, "w_balance")
  /\ UNCHANGED <<nodeVars, ledgerVars, config, balance, stake, prev>>

\* node.GetBalance and the comparison with the registration fee
WorkerGetBalance(p) ==
  /\ p \in sched.live /\ pc[p] = "w_balance"
  /\ \E err \in ReadErrors :
       /\ Log(p, ReadOp("GetBalance", "Worker", config[p].TopicId,
                        node.Chain.Address, ~err, FALSE, IF err THEN 0 ELSE funds))
       /\ IF err THEN Return(p, FALSE) /\ UNCHANGED balance
          ELSE /\ balance' = [balance EXCEPT ![p] = funds]
               /\ IF ~BalanceGTE(funds, moduleParams[p]) THEN Return(p, FALSE)
                  ELSE Goto(p, "w_send")
  /\ UNCHANGED <<nodeVars, ledgerVars, config, moduleParams, stake, prev>>

\* variant: a submission that reports success is trusted, no second read
WorkerSendRegisterTrusted(p) ==
  /\ p \in sched.live /\ pc[p] = "w_send"
  /\ \E err \in BOOLEAN, landed \in Landings :
       LET msg == RegisterRequest(node.Chain.Address, config[p].TopicId,
                                  node.Chain.Address, FALSE, ~err) IN
       /\ Log(p, msg)
       /\ IF landed
          THEN CanLandRegister /\ LandRegister(msg.owner, msg.role, msg.topic)
          ELSE UNCHANGED ledgerVars
       /\ IF err THEN Return(p, FALSE) ELSE Return(p, TRUE)
  /\ UNCHANGED <<nodeVars, config, moduleParams, balance, stake, prev>>

\* SendDataWithRetry(RegisterRequest{IsReputer: false}); an error returns false
WorkerSendRegister(p) ==
  /\ p \in sched.live /\ pc[p] = "w_send"
  /\ \E err \in BOOLEAN, landed \in Landings :
       LET msg == RegisterRequest(node.Chain.Address, config[p].TopicId,
                                  node.Chain.Address, FALSE, ~err) IN
       /\ Log(p, msg)
       /\ IF landed
          THEN CanLandRegister /\ LandRegister(msg.owner, msg.role, msg.topic)
          ELSE UNCHANGED ledgerVars
       /\ IF err THEN Return(p, FALSE) ELSE Goto(p, "w_recheck")
  /\ UNCHANGED <<nodeVars, config, moduleParams, balance, stake, prev>>

\* variant: the value of the second read is ignored
WorkerRecheckIgnoresValue(p) ==
  /\ p \in sched.live /\ pc[p] = "w_recheck"
  /\ \E err \in ReadErrors :
       LET isRegistered == IsRegisteredOnLedger("Worker", config[p].TopicId) IN
       /\ Log(p, ReadOp("IsRegistered", "Worker", config[p].TopicId,
                        node.Chain.Address, ~err, (~err) /\ isRegistered, 0))
       /\ IF err THEN Return(p, FALSE) ELSE Return(p, TRUE)
  /\ UNCHANGED <<nodeVars, ledgerVars, config, moduleParams, balance, stake, prev>>

\* the second node.IsWorkerRegistered(config.TopicId); its value is returned
WorkerRecheck(p) ==
  /\ p \in sched.live /\ pc[p] = "w_recheck"
  /\ \E err \in ReadErrors :
       LET isRegistered == IsRegisteredOnLedger("Worker", config[p].TopicId) IN
       /\ Log(p, ReadOp("IsRegistered", "Worker", config[p].TopicId,
                        node.Chain.Address, ~err, (~err) /\ isRegistered, 0))
       /\ IF err THEN Return(p, FALSE) ELSE Return(p, isRegistered)
  /\ UNCHANGED <<nodeVars, ledgerVars, config, moduleParams, balance, stake, prev>>

\* ---------------------------------------- RegisterAndStakeReputerIdempotently
\* The scheduler invokes reputer reconciliation for a configured topic and
\* minimum stake.
CallReputer(p) ==
  /\ p \in sched.live /\ pc[p] = "idle"
  /\ "Reputer" \in sched.roles
  /\ sched.oneShot => prev[p] = NoCall
  /\ \E t \in sched.topics[p], m \in sched.minStakes :
       config' = [config EXCEPT ![p] = [role |-> "Reputer", TopicId |-> t, MinStake |-> m]]
  /\ pc' = [pc EXCEPT ![p] = "r_isreg"]
  /\ trace' = [trace EXCEPT ![p] = <<>>]
  /\ UNCHANGED <<nodeVars, ledgerVars, moduleParams, balance, stake, result, prev>>

\* variant: the registration phase is entered whatever the entry read returns
ReputerIsRegisteredAlwaysRegisters(p) ==
  /\ p \in sched.live /\ pc[p] = "r_isreg"
  /\ \E err \in ReadErrors :
       LET isRegistered == IsRegisteredOnLedger("Reputer", config[p].TopicId) IN
       /\ Log(p, ReadOp("IsRegistered", "Reputer", config[p].TopicId,
                        node.Chain.Address, ~err, (~err) /\ isRegistered, 0))
       /\ IF err THEN Return(p, FALSE) ELSE Goto(p, "r_balance")
  /\ UNCHANGED <<nodeVars, ledgerVars, config, moduleParams, balance, stake, prev>>

\* node.IsReputerRegistered(config.TopicId): registered goes to the stake
\* phase, not registered to the registration phase
ReputerIsRegistered(p) ==
  /\ p \in sched.live /\ pc[p] = "r_isreg"
  /\ \E err \in ReadErrors :
       LET isRegistered == IsRegisteredOnLedger("Reputer", config[p].TopicId) IN
       /\ Log(p, ReadOp("IsRegistered", "Reputer", config[p].TopicId,
                        node.Chain.Address, ~err, (~err) /\ isRegistered, 0))
       /\ IF err THEN Return(p, FALSE)
          ELSE IF isRegistered THEN Goto(p, "r_stake")
          ELSE Goto(p, "r_balance")
  /\ UNCHANGED <<nodeVars, ledgerVars, config, moduleParams, balance, stake, prev>>

\* node.GetBalance
ReputerGetBalance(p) ==
  /\ p \in sched.live /\ pc[p] = "r_balance"
  /\ \E err \in ReadErrors :
       /\ Log(p, ReadOp("GetBalance", "Reputer", config[p].TopicId,
                        node.Chain.Address, ~err, FALSE, IF err THEN 0 ELSE funds))
       /\ IF err THEN Return(p, FALSE) /\ UNCHANGED balance
          ELSE /\ balance' = [balance EXCEPT ![p] = funds]
               /\ Goto(p, "r_params")
  /\ UNCHANGED <<nodeVars, ledgerVars, config, moduleParams, stake, prev>>

\* GetParams and the comparison of the balance with the registration fee
ReputerGetParams(p) ==
  /\ p \in sched.live /\ pc[p] = "r_params"
  /\ \E err \in ReadErrors :
       /\ Log(p, ReadOp("GetParams", "Reputer", config[p].TopicId,
                        node.Chain.Address, ~err, FALSE, IF err THEN 0 ELSE registrationFee))
       /\ IF err THEN Return(p, FALSE) /\ UNCHANGED moduleParams
          ELSE /\ moduleParams' = [moduleParams EXCEPT ![p] = registrationFee]
               /\ IF ~BalanceGTE(balance[p], registrationFee) THEN Return(p, FALSE)
                  ELSE Goto(p, "r_send")
  /\ UNCHANGED <<nodeVars, ledgerVars, config, balance, stake, prev>>

\* SendDataWithRetry(RegisterRequest{IsReputer: true}); an error returns false
ReputerSendRegister(p) ==
  /\ p \in sched.live /\ pc[p] = "r_send"
  /\ \E err \in BOOLEAN, landed \in Landings :
       LET msgRegister == RegisterRequest(node.Chain.Address, config[p].TopicId,
                                          node.Chain.Address, TRUE, ~err) IN
       /\ Log(p, msgRegister)
       /\ IF landed
          THEN CanLandRegister
               /\ LandRegister(msgRegister.owner, msgRegister.role, msgRegister.topic)
          ELSE UNCHANGED ledgerVars
       /\ IF err THEN Return(p, FALSE) ELSE Goto(p, "r_recheck")
  /\ UNCHANGED <<nodeVars, config, moduleParams, balance, stake, prev>>

\* the second node.IsReputerRegistered: still unregistered returns false
ReputerRecheck(p) ==
  /\ p \in sched.live /\ pc[p] = "r_recheck"
  /\ \E err \in ReadErrors :
       LET isRegistered == IsRegisteredOnLedger("Reputer", config[p].TopicId) IN
       /\ Log(p, ReadOp("IsRegistered", "Reputer", config[p].TopicId,
                        node.Chain.Address, ~err, (~err) /\ isRegistered, 0))
       /\ IF err THEN Return(p, FALSE)
          ELSE IF NotRegisteredAfterAllRetries(isRegistered) THEN Return(p, FALSE)
          ELSE Goto(p, "r_stake")
  /\ UNCHANGED <<nodeVars, ledgerVars, config, moduleParams, balance, stake, prev>>

\* variant: the error of the stake read is ignored, the stake taken as zero
ReputerGetStakeIgnoresError(p) ==
  /\ p \in sched.live /\ pc[p] = "r_stake"
  /\ \E err \in ReadErrors :
       LET s == IF err THEN 0 ELSE StakeOnLedger(config[p].TopicId, node.Chain.Address) IN
       /\ Log(p, ReadOp("GetStake", "Reputer", config[p].TopicId,
                        node.Chain.Address, ~err, FALSE, s))
       /\ stake' = [stake EXCEPT ![p] = s]
       /\ IF MinStakeLTE(config[p].MinStake, s) THEN Return(p, TRUE)
          ELSE Goto(p, "r_addstake")
  /\ UNCHANGED <<nodeVars, ledgerVars, config, moduleParams, balance, prev>>

\* node.GetReputerStakeInTopic(config.TopicId, node.Chain.Address) and the
\* comparison with config.MinStake
ReputerGetStake(p) ==
  /\ p \in sched.live /\ pc[p] = "r_stake"
  /\ \E err \in ReadErrors :
       LET s == StakeOnLedger(config[p].TopicId, node.Chain.Address) IN
       /\ Log(p, ReadOp("GetStake", "Reputer", config[p].TopicId,
                        node.Chain.Address, ~err, FALSE, IF err THEN 0 ELSE s))
       /\ IF err THEN Return(p, FALSE) /\ UNCHANGED stake
          ELSE /\ stake' = [stake EXCEPT ![p] = s]
               /\ IF MinStakeLTE(config[p].MinStake, s) THEN Return(p, TRUE)
                  ELSE Goto(p, "r_addstake")
  /\ UNCHANGED <<nodeVars, ledgerVars, config, moduleParams, balance, prev>>

\* SendDataWithRetry(AddStakeRequest{Sender: node.Wallet.Address,
\* Amount: minStake.Sub(stake)}); an error returns false
ReputerSendAddStake(p) ==
  /\ p \in sched.live /\ pc[p] = "r_addstake"
  /\ \E err \in BOOLEAN :
       LET msgAddStake == AddStakeRequest(node.Wallet.Address,
                                          StakeToAdd(config[p].MinStake, stake[p]),
                                          config[p].TopicId, ~err) IN
       /\ Log(p, msgAddStake)
       /\ \E k \in Applied(msgAddStake.amount, Room(msgAddStake.sender, msgAddStake.topic)) :
            IF k > 0 THEN LandAddStake(msgAddStake.sender, msgAddStake.topic, k)
            ELSE UNCHANGED ledgerVars
       /\ IF err THEN Return(p, FALSE) ELSE Goto(p, "r_restake")
  /\ UNCHANGED <<nodeVars, config, moduleParams, balance, stake, prev>>

\* variant: a stake still below MinStake is topped up again within the call
ReputerRecheckStakeRetries(p) ==
  /\ p \in sched.live /\ pc[p] = "r_restake"
  /\ \E err \in ReadErrors :
       LET s == StakeOnLedger(config[p].TopicId, node.Chain.Address) IN
       /\ Log(p, ReadOp("GetStake", "Reputer", config[p].TopicId,
                        node.Chain.Address, ~err, FALSE, IF err THEN 0 ELSE s))
       /\ IF err THEN Return(p, FALSE) /\ UNCHANGED stake
          ELSE /\ stake' = [stake EXCEPT ![p] = s]
               /\ IF StakeLT(s, config[p].MinStake) THEN Goto(p, "r_addstake")
                  ELSE Return(p, TRUE)
  /\ UNCHANGED <<nodeVars, ledgerVars, config, moduleParams, balance, prev>>

\* the second node.GetReputerStakeInTopic and the final comparison
ReputerRecheckStake(p) ==
  /\ p \in sched.live /\ pc[p] = "r_restake"
  /\ \E err \in ReadErrors :
       LET s == StakeOnLedger(config[p].TopicId, node.Chain.Address) IN
       /\ Log(p, ReadOp("GetStake", "Reputer", config[p].TopicId,
                        node.Chain.Address, ~err, FALSE, IF err THEN 0 ELSE s))
       /\ IF err THEN Return(p, FALSE) /\ UNCHANGED stake
          ELSE /\ stake' = [stake EXCEPT ![p] = s]
               /\ IF StakeLT(s, config[p].MinStake) THEN Return(p, FALSE)
                  ELSE Return(p, TRUE)
  /\ UNCHANGED <<nodeVars, ledgerVars, config, moduleParams, balance, prev>>

\* The call returns to the scheduler.
Returned(p) ==
  /\ p \in sched.live /\ pc[p] = "done"
  /\ prev' = [prev EXCEPT ![p] = [role |-> config[p].role, TopicId |-> config[p].TopicId,
                                  MinStake |-> config[p].MinStake, ret |-> result[p],
                                  writes |-> NumWrites(trace[p])]]
  /\ pc' = [pc EXCEPT ![p] = "idle"]
  /\ UNCHANGED <<nodeVars, ledgerVars, config, moduleParams, balance, stake, result, trace>>

Next ==
  \E p \in Procs :
    \/ CallWorker(p)
    \/ WorkerIsRegistered(p)
    \/ WorkerGetParams(p)
    \/ WorkerGetBalance(p)
    \/ WorkerSendRegister(p)
    \/ WorkerRecheck(p)
    \/ CallReputer(p)
    \/ ReputerIsRegistered(p)
    \/ ReputerGetBalance(p)
    \/ ReputerGetParams(p)
    \/ ReputerSendRegister(p)
    \/ ReputerRecheck(p)
    \/ ReputerGetStake(p)
    \/ ReputerSendAddStake(p)
    \/ ReputerRecheckStake(p)
    \/ Returned(p)

Spec == Init /\ [][Next]_vars

\* ------------------------------------------------- repeated passes, one tuple
\* The scheduler re-invokes reconciliation for one tuple, one pass at a time;
\* every read succeeds and reflects the ledger and every write is applied in
\* full, whether or not it reports an error.
Converging(role, t, m) ==
  [live |-> {1}, topics |-> [p \in Procs |-> {t}], roles |-> {role},
   minStakes |-> {m}, oneShot |-> FALSE, reliable |-> TRUE]

\* The tuple may already be registered and hold some stake; the balance covers
\* the registration fee before and after the registration.
InitConv ==
  /\ node \in [Chain : [Address : {"a1"}], Wallet : [Address : Addrs]]
  /\ sched \in {Converging(role, t, m) : role \in Roles, t \in Topics, m \in MinStakes}
  /\ \E role \in sched.roles, t \in sched.topics[1] :
       /\ registered \in {{}, {<<"a1", role, t>>}}
       /\ \E s0 \in Stakes :
            stakeOf = [k \in Addrs \X Topics |-> IF k = <<"a1", t>> THEN s0 ELSE 0]
  /\ funds \in Funds
  /\ registrationFee \in Fees
  /\ funds >= 2 * registrationFee
  /\ pc = [p \in Procs |-> "idle"]
  /\ config = [p \in Procs |-> [role |-> "none", TopicId |-> 0, MinStake |-> 0]]
  /\ moduleParams = [p \in Procs |-> 0]
  /\ balance = [p \in Procs |-> 0]
  /\ stake = [p \in Procs |-> 0]
  /\ result = [p \in Procs |-> FALSE]
  /\ trace = [p \in Procs |-> <<>>]
  /\ prev = [p \in Procs |-> NoCall]

\* Every blocking call returns and the scheduler keeps calling.
SpecConv == InitConv /\ [][Next]_vars /\ WF_vars(Next)

\* ------------------------------------------- two concurrent calls, one tuple
\* Two goroutines each call reconciliation once, for the same topic, role and
\* MinStake; the steps of the two calls interleave freely.
Concurrent(role, t, m) ==
  [live |-> {1, 2}, topics |-> [p \in Procs |-> {t}], roles |-> {role},
   minStakes |-> {m}, oneShot |-> TRUE, reliable |-> FALSE]

InitConc ==
  /\ node \in [Chain : [Address : {"a1"}], Wallet : [Address : Addrs]]
  /\ sched \in {Concurrent(role, t, m) : role \in Roles, t \in Topics, m \in MinStakes}
  /\ registered = {}
  /\ stakeOf = [k \in Addrs \X Topics |-> 0]
  /\ funds \in Funds
  /\ registrationFee \in Fees
  /\ pc = [p \in Procs |-> "idle"]
  /\ config = [p \in Procs |-> [role |-> "none", TopicId |-> 0, MinStake |-> 0]]
  /\ moduleParams = [p \in Procs |-> 0]
  /\ balance = [p \in Procs |-> 0]
  /\ stake = [p \in Procs |-> 0]
  /\ result = [p \in Procs |-> FALSE]
  /\ trace = [p \in Procs |-> <<>>]
  /\ prev = [p \in Procs |-> NoCall]

SpecConc == InitConc /\ [][Next]_vars

\* ----------------------------------------- two concurrent calls, two topics
\* Two goroutines each call reconciliation once, goroutine 1 for topic 1 and
\* goroutine 2 for topic 2, each in either role; the steps interleave freely.
Disjoint(m) ==
  [live |-> {1, 2}, topics |-> [p \in Procs |-> {p}], roles |-> Roles,
   minStakes |-> {m}, oneShot |-> TRUE, reliable |-> FALSE]

InitTopics ==
  /\ node \in [Chain : [Address : {"a1"}], Wallet : [Address : Addrs]]
  /\ sched \in {Disjoint(m) : m \in MinStakes}
  /\ registered = {}
  /\ stakeOf = [k \in Addrs \X Topics |-> 0]
  /\ funds \in Funds
  /\ registrationFee \in Fees
  /\ pc = [p \in Procs |-> "idle"]
  /\ config = [p \in Procs |-> [role |-> "none", TopicId |-> 0, MinStake |-> 0]]
  /\ moduleParams = [p \in Procs |-> 0]
  /\ balance = [p \in Procs |-> 0]
  /\ stake = [p \in Procs |-> 0]
  /\ result = [p \in Procs |-> FALSE]
  /\ trace = [p \in Procs |-> <<>>]
  /\ prev = [p \in Procs |-> NoCall]

SpecTopics == InitTopics /\ [][Next]_vars

\* ------------------------------------------- a call run alone, as a relation
\* The ledger as a value.
Ledger == [reg |-> registered, stk |-> stakeOf, funds |-> funds, fee |-> registrationFee]

\* A submitted message without the outcome reported for it.
Msg(op) == [kind |-> op.kind, role |-> op.role, topic |-> op.topic,
            sender |-> op.sender, owner |-> op.owner, amount |-> op.amount]

\* The messages of a call, in the order of submission.
Writes(tr) ==
  LET ws == SelectSeq(tr, IsWrite) IN [i \in DOMAIN ws |-> Msg(ws[i])]

\* The registration part of a call with configuration c run alone on ledger L,
\* from the entry read to the confirmation of the registration: every way the
\* reads may fail and the register message may land or not.
RegistrationPhase(c, L) ==
  LET isRegistered == <<node.Chain.Address, c.role, c.TopicId>> \in L.reg
      msg == Msg(RegisterRequest(node.Chain.Address, c.TopicId, node.Chain.Address,
                                 c.role = "Reputer", TRUE))
      landed == [L EXCEPT !.reg = @ \cup {<<msg.owner, msg.role, msg.topic>>},
                          !.funds = @ - L.fee]
      afterSend == {L} \cup (IF L.funds >= L.fee THEN {landed} ELSE {})
  IN {[confirmed |-> FALSE, writes |-> <<>>, ledger |-> L]}
     \cup
     (IF isRegistered THEN {[confirmed |-> TRUE, writes |-> <<>>, ledger |-> L]}
      ELSE IF ~BalanceGTE(L.funds, L.fee) THEN {}
      ELSE UNION {{[confirmed |-> FALSE, writes |-> <<msg>>, ledger |-> L1],
                   [confirmed |-> <<msg.owner, c.role, c.TopicId>> \in L1.reg,
                    writes |-> <<msg>>, ledger |-> L1]} : L1 \in afterSend})

\* The stake part of a reputer call run alone on ledger L after the messages ws.
StakePhase(c, L, ws) ==
  LET s == L.stk[<<node.Chain.Address, c.TopicId>>]
      msg == Msg(AddStakeRequest(node.Wallet.Address, StakeToAdd(c.MinStake, s),
                                 c.TopicId, TRUE))
      room == MaxStake - L.stk[<<msg.sender, msg.topic>>]
      most == IF msg.amount <= room THEN msg.amount ELSE room
      afterSend == {[L EXCEPT !.stk[<<msg.sender, msg.topic>>] = @ + k] : k \in 0..most}
  IN {[ret |-> FALSE, writes |-> ws, ledger |-> L]}
     \cup
     (IF MinStakeLTE(c.MinStake, s) THEN {[ret |-> TRUE, writes |-> ws, ledger |-> L]}
      ELSE UNION {{[ret |-> FALSE, writes |-> Append(ws, msg), ledger |-> L2],
                   [ret |-> ~StakeLT(L2.stk[<<node.Chain.Address, c.TopicId>>], c.MinStake),
                    writes |-> Append(ws, msg), ledger |-> L2]} : L2 \in afterSend})

\* The results, messages and final ledgers a call with configuration c can
\* produce when it runs alone on ledger L.
CallOutcomes(c, L) ==
  IF c.role = "Worker"
  THEN {[ret |-> o.confirmed, writes |-> o.writes, ledger |-> o.ledger] :
          o \in RegistrationPhase(c, L)}
  ELSE UNION {IF o.confirmed THEN StakePhase(c, o.ledger, o.writes)
              ELSE {[ret |-> FALSE, writes |-> o.writes, ledger |-> o.ledger]} :
                o \in RegistrationPhase(c, L)}

\* The outcomes of the call c1 followed by the call c2, from ledger L.
OneAfterTheOther(c1, c2, L) ==
  UNION {{<<o1, o2>> : o2 \in CallOutcomes(c2, o1.ledger)} : o1 \in CallOutcomes(c1, L)}

\* ------------------------------------------------------------- properties
Done(p)          == p \in sched.live /\ pc[p] = "done"
InCall(p)        == p \in sched.live /\ pc[p] # "idle"
IsWorkerCall(p)  == config[p].role = "Worker"
IsReputerCall(p) == config[p].role = "Reputer"
Positions(p, kind) == {i \in DOMAIN trace[p] : trace[p][i].kind = kind}

\* C1: a worker call that submitted a register message re-reads
\* the registration status after the submission, whatever the submission
\* reported, and returns the status it read.
C1_ResultIsPostWriteRead ==
  \A p \in Procs :
    (Done(p) /\ IsWorkerCall(p)) =>
      \A i \in Positions(p, "Register") :
        \E j \in Positions(p, "IsRegistered") :
          /\ j > i
          /\ result[p] = (trace[p][j].ok /\ trace[p][j].bval)

\* What the code does after a register submission of the worker path: a call
\* whose register submission reported success
\* returns the registration status read right after it (false when that read
\* fails); a call whose register submission reported an error returns false
\* without reading the registration status again.
C1_ResultAfterRegister ==
  \A p \in Procs :
    (Done(p) /\ IsWorkerCall(p)) =>
      \A i \in Positions(p, "Register") :
        IF trace[p][i].ok
        THEN /\ Len(trace[p]) = i + 1
             /\ trace[p][i + 1].kind = "IsRegistered"
             /\ result[p] = (trace[p][i + 1].ok /\ trace[p][i + 1].bval)
        ELSE /\ Len(trace[p]) = i
             /\ result[p] = FALSE

\* A worker call whose register submission reported an error although the
\* registration landed: the call has returned false.
C1_Witness ==
  \E p \in Procs :
    /\ Done(p) /\ IsWorkerCall(p)
    /\ \E i \in Positions(p, "Register") : ~trace[p][i].ok
    /\ IsRegisteredOnLedger("Worker", config[p].TopicId)
    /\ result[p] = FALSE

\* C2: a reputer call that submitted an add-stake message re-reads
\* the stake after the submission, whatever the submission reported, and
\* returns true exactly when the stake it read is at least MinStake.
C2_ResultIsPostWriteStake ==
  \A p \in Procs :
    (Done(p) /\ IsReputerCall(p)) =>
      \A i \in Positions(p, "AddStake") :
        \E j \in Positions(p, "GetStake") :
          /\ j > i
          /\ result[p] = (trace[p][j].ok /\ trace[p][j].nval >= config[p].MinStake)

\* What the code does after an add-stake submission: a call whose add-stake
\* submission reported success
\* reads the stake right after it and returns true exactly when that read
\* succeeds with a stake of at least MinStake; a call whose add-stake
\* submission reported an error returns false without reading the stake again.
C2_ResultAfterAddStake ==
  \A p \in Procs :
    (Done(p) /\ IsReputerCall(p)) =>
      \A i \in Positions(p, "AddStake") :
        IF trace[p][i].ok
        THEN /\ Len(trace[p]) = i + 1
             /\ trace[p][i + 1].kind = "GetStake"
             /\ result[p] = (trace[p][i + 1].ok
                             /\ trace[p][i + 1].nval >= config[p].MinStake)
        ELSE /\ Len(trace[p]) = i
             /\ result[p] = FALSE

\* A reputer call whose add-stake submission reported an error although the
\* top-up landed in full: the call has returned false.
C2_Witness ==
  \E p \in Procs :
    /\ Done(p) /\ IsReputerCall(p)
    /\ \E i \in Positions(p, "AddStake") : ~trace[p][i].ok
    /\ StakeOnLedger(config[p].TopicId, node.Chain.Address) >= config[p].MinStake
    /\ result[p] = FALSE

\* The call of p read "not registered" at entry and then read a balance
\* strictly below the registration fee it read.
Underfunded(p) ==
  /\ Len(trace[p]) >= 1
  /\ trace[p][1].kind = "IsRegistered" /\ trace[p][1].ok /\ ~trace[p][1].bval
  /\ \E i \in Positions(p, "GetBalance"), j \in Positions(p, "GetParams") :
       /\ trace[p][i].ok /\ trace[p][j].ok
       /\ trace[p][i].nval < trace[p][j].nval

\* C3: a call, of either operation, that read "not registered" at entry and a
\* balance strictly below the registration fee submits no write and returns
\* false.
C3_NoUnderfundedAttempt ==
  \A p \in Procs :
    (InCall(p) /\ Underfunded(p)) =>
      /\ \A i \in DOMAIN trace[p] : ~IsWrite(trace[p][i])
      /\ Done(p) /\ result[p] = FALSE

\* A reputer call has returned after reading a balance one unit short of a fee.
C3_Witness ==
  \E p \in Procs :
    /\ Done(p) /\ IsReputerCall(p) /\ Underfunded(p)
    /\ \E i \in Positions(p, "GetBalance"), j \in Positions(p, "GetParams") :
         trace[p][i].nval + 1 = trace[p][j].nval

\* C4: a reputer call submits an add-stake message only after a registration
\* read of the same call has returned true, and a call whose register
\* submission is not followed by a read showing the identity registered
\* returns false without submitting an add-stake message.
C4_PhaseOrdering ==
  \A p \in Procs :
    (InCall(p) /\ IsReputerCall(p)) =>
      /\ \A i \in Positions(p, "AddStake") :
           \E j \in Positions(p, "IsRegistered") :
             /\ j < i
             /\ trace[p][j].ok /\ trace[p][j].bval
             /\ trace[p][j].role = "Reputer"
             /\ trace[p][j].topic = config[p].TopicId
      /\ \A i \in Positions(p, "Register") :
           (Done(p) /\ ~\E j \in Positions(p, "IsRegistered") :
                          j > i /\ trace[p][j].ok /\ trace[p][j].bval)
             => (result[p] = FALSE /\ Positions(p, "AddStake") = {})

\* A reputer call registered, read the registration back as true and then
\* submitted an add-stake message.
C4_Witness ==
  \E p \in Procs :
    /\ Done(p) /\ IsReputerCall(p)
    /\ \E i \in Positions(p, "Register"), j \in Positions(p, "AddStake") :
         /\ i + 1 < j
         /\ trace[p][i + 1].kind = "IsRegistered" /\ trace[p][i + 1].bval

\* The first stake read of the call of p succeeded.
StakePhaseReached(p) ==
  /\ Positions(p, "GetStake") # {}
  /\ LET f == CHOOSE i \in Positions(p, "GetStake") :
                \A j \in Positions(p, "GetStake") : i <= j
     IN trace[p][f].ok

\* The stake S returned by the first stake read of the call of p.
StakeAtEntry(p) ==
  LET f == CHOOSE i \in Positions(p, "GetStake") :
             \A j \in Positions(p, "GetStake") : i <= j
  IN trace[p][f].nval

\* C5: a finished reputer call that read the current stake S submits, when
\* MinStake > S, exactly one add-stake message, of amount MinStake - S, and
\* when MinStake <= S no add-stake message.
C5_StakeDelta ==
  \A p \in Procs :
    (Done(p) /\ IsReputerCall(p) /\ StakePhaseReached(p)) =>
      IF config[p].MinStake > StakeAtEntry(p)
      THEN /\ Cardinality(Positions(p, "AddStake")) = 1
           /\ \A i \in Positions(p, "AddStake") :
                trace[p][i].amount = config[p].MinStake - StakeAtEntry(p)
      ELSE Positions(p, "AddStake") = {}

\* A reputer call found a positive stake below MinStake and submitted the
\* difference.
C5_Witness ==
  \E p \in Procs :
    /\ Done(p) /\ IsReputerCall(p) /\ StakePhaseReached(p)
    /\ StakeAtEntry(p) > 0
    /\ \E i \in Positions(p, "AddStake") :
         /\ trace[p][i].amount = config[p].MinStake - StakeAtEntry(p)
         /\ trace[p][i].amount < config[p].MinStake

\* C6: a worker call whose entry registration read returns true submits no
\* write and returns true; and a worker call that directly follows a worker
\* call for the same topic that returned true submits no write and, when its
\* entry read succeeds, returns true.
C6_WorkerIdempotence ==
  \A p \in Procs :
    (Done(p) /\ IsWorkerCall(p)) =>
      /\ (trace[p][1].ok /\ trace[p][1].bval) =>
           (NumWrites(trace[p]) = 0 /\ result[p] = TRUE)
      /\ (prev[p].role = "Worker" /\ prev[p].TopicId = config[p].TopicId /\ prev[p].ret) =>
           /\ NumWrites(trace[p]) = 0
           /\ trace[p][1].ok => result[p] = TRUE

\* Two worker calls in succession for the same topic have both returned true,
\* the first one after registering.
C6_Witness ==
  \E p \in Procs :
    /\ Done(p) /\ IsWorkerCall(p)
    /\ prev[p].role = "Worker" /\ prev[p].TopicId = config[p].TopicId
    /\ prev[p].ret /\ prev[p].writes = 1
    /\ result[p] = TRUE /\ NumWrites(trace[p]) = 0

\* The read r observes the state the write w is meant to change: the
\* registration of the role and topic of a register message, the stake in the
\* topic of an add-stake message.
VerifiesWrite(r, w) ==
  /\ IsRead(r) /\ r.topic = w.topic
  /\ IF w.kind = "Register"
     THEN r.kind = "IsRegistered" /\ r.role = w.role /\ r.sender = w.owner
     ELSE r.kind = "GetStake"

C8_ReadFailureStops ==
  \A p \in Procs :
    InCall(p) =>
      \A i \in DOMAIN trace[p] :
        (IsRead(trace[p][i]) /\ ~trace[p][i].ok) =>
          /\ \A j \in DOMAIN trace[p] : j > i => ~IsWrite(trace[p][j])
          /\ Done(p) /\ result[p] = FALSE

\* A reputer call has returned after its stake read failed, the registration
\* written by the same call already confirmed.
C8_Witness ==
  \E p \in Procs :
    /\ Done(p) /\ IsReputerCall(p) /\ result[p] = FALSE
    /\ Positions(p, "Register") # {}
    /\ \E i \in Positions(p, "GetStake") : ~trace[p][i].ok

\* C9: every add-stake message carries a strictly positive amount, for every
\* MinStake (zero and negative included), and a call that read a stake of at
\* least MinStake submits no add-stake message.
C9_OnlyPositiveTopUps ==
  \A p \in Procs :
    InCall(p) =>
      /\ \A i \in Positions(p, "AddStake") : trace[p][i].amount > 0
      /\ \A i \in Positions(p, "GetStake") :
           (trace[p][i].ok /\ trace[p][i].nval >= config[p].MinStake) =>
             \A j \in Positions(p, "AddStake") : j < i

\* A reputer call with a MinStake of zero or less has returned true without a
\* write, and the next call of the goroutine has submitted an add-stake message.
C9_Witness ==
  \E p \in Procs :
    /\ Done(p) /\ IsReputerCall(p)
    /\ \E i \in Positions(p, "AddStake") : trace[p][i].amount > 0
    /\ prev[p].role = "Reputer" /\ prev[p].MinStake <= 0
    /\ prev[p].ret /\ prev[p].writes = 0

\* C10: a worker call submits at most one write, a register message; a reputer
\* call submits at most one register and at most one add-stake message, the
\* register message first.
C10_BoundedWrites ==
  \A p \in Procs :
    InCall(p) =>
      /\ Cardinality(Positions(p, "Register")) <= 1
      /\ Cardinality(Positions(p, "AddStake")) <= 1
      /\ IsWorkerCall(p) => Positions(p, "AddStake") = {}
      /\ \A i \in Positions(p, "Register"), j \in Positions(p, "AddStake") : i < j
      /\ \A i \in Positions(p, "Register") : trace[p][i].role = config[p].role

\* A reputer call has submitted two writes, a register message and then an
\* add-stake message, and returned false.
C10_Witness ==
  \E p \in Procs :
    /\ Done(p) /\ IsReputerCall(p) /\ result[p] = FALSE
    /\ NumWrites(trace[p]) = 2

\* C14: a finished reputer call whose entry read showed the identity
\* registered reads the stake next and submits no register message; when that
\* stake read succeeds with a stake of at least MinStake the call submits no
\* write at all and returns true, and when it succeeds with a lower stake the
\* next operation of the call is the add-stake message.
C14_ReputerSteadyState ==
  \A p \in Procs :
    (Done(p) /\ IsReputerCall(p) /\ trace[p][1].ok /\ trace[p][1].bval) =>
      /\ Positions(p, "Register") = {}
      /\ Len(trace[p]) >= 2 /\ trace[p][2].kind = "GetStake"
      /\ (trace[p][2].ok /\ trace[p][2].nval >= config[p].MinStake) =>
           (Len(trace[p]) = 2 /\ NumWrites(trace[p]) = 0 /\ result[p] = TRUE)
      /\ (trace[p][2].ok /\ trace[p][2].nval < config[p].MinStake) =>
           (Len(trace[p]) >= 3 /\ trace[p][3].kind = "AddStake")

\* A reputer call that started registered with a positive stake of at least
\* MinStake has returned true after two reads.
C14_Witness ==
  \E p \in Procs :
    /\ Done(p) /\ IsReputerCall(p) /\ trace[p][1].ok /\ trace[p][1].bval
    /\ Len(trace[p]) = 2 /\ trace[p][2].ok
    /\ trace[p][2].nval >= config[p].MinStake /\ config[p].MinStake > 0
    /\ result[p] = TRUE

\* The call of p read "not registered" at entry and then read a balance of at
\* least the registration fee it read.
Funded(p) ==
  /\ Len(trace[p]) >= 1
  /\ trace[p][1].kind = "IsRegistered" /\ trace[p][1].ok /\ ~trace[p][1].bval
  /\ \E i \in Positions(p, "GetBalance"), j \in Positions(p, "GetParams") :
       /\ trace[p][i].ok /\ trace[p][j].ok
       /\ trace[p][i].nval >= trace[p][j].nval

\* C15: a finished call, of either operation, that read "not registered" at
\* entry and a balance of at least the registration fee has submitted exactly
\* one register message: for the topic of the call, with the node address as
\* sender and as owner, and with the role of the operation.
C15_RegisterWhenFunded ==
  \A p \in Procs :
    (Done(p) /\ Funded(p)) =>
      /\ Cardinality(Positions(p, "Register")) = 1
      /\ \A i \in Positions(p, "Register") :
           /\ trace[p][i].topic = config[p].TopicId
           /\ trace[p][i].sender = node.Chain.Address
           /\ trace[p][i].owner = node.Chain.Address
           /\ trace[p][i].role = config[p].role

\* A reputer call for topic 2 that read a balance equal to the fee has
\* submitted its register message.
C15_Witness ==
  \E p \in Procs :
    /\ Done(p) /\ IsReputerCall(p) /\ Funded(p) /\ config[p].TopicId = 2
    /\ \E i \in Positions(p, "GetBalance"), j \in Positions(p, "GetParams") :
         trace[p][i].ok /\ trace[p][j].ok /\ trace[p][i].nval = trace[p][j].nval
    /\ Positions(p, "Register") # {}

\* C16: in a reputer call the add-stake message is sent by the address that
\* the register message and both stake reads of the call use, so that the
\* stake read after the add-stake message is the stake of its sender, for
\* every node configuration.
C16_TopUpTargetsMeasuredIdentity ==
  \A p \in Procs :
    (InCall(p) /\ IsReputerCall(p)) =>
      \A i \in Positions(p, "AddStake") :
        /\ \A j \in Positions(p, "Register") \cup Positions(p, "GetStake") :
             trace[p][j].sender = trace[p][i].sender
        /\ (Done(p) /\ Len(trace[p]) > i /\ trace[p][i + 1].ok) =>
             trace[p][i + 1].nval = StakeOnLedger(trace[p][i].topic, trace[p][i].sender)

\* C13: with passes that do not overlap, reads that reflect the ledger and
\* add-stake messages applied at most once and at most in full, no pass raises
\* a stake on the ledger above the larger of the stake before the pass and the
\* MinStake of the pass; stated for one step: a step that raises a stake is the
\* add-stake submission of a reputer call and leaves that stake at most at the
\* MinStake of the call.
C13_NoOvershoot ==
  [][\A k \in Addrs \X Topics :
       stakeOf'[k] > stakeOf[k] =>
         \E p \in Procs :
           /\ pc[p] = "r_addstake" /\ pc'[p] # "r_addstake"
           /\ stakeOf'[k] <= config[p].MinStake]_vars

\* C11: when reconciliation of a tuple is re-invoked forever, every read
\* succeeds and reflects the ledger, every write is applied in full and the
\* balance covers the fee, passes keep returning and from some pass on every
\* pass returns true without submitting a write.
C11_EventualConvergence ==
  /\ []<>(pc[1] = "done")
  /\ <>[](pc[1] = "done" => (result[1] = TRUE /\ NumWrites(trace[1]) = 0))

\* C12: concurrent calls for the same tuple are not serialized: what a call
\* writes is decided by its own reads alone, whatever the other call has
\* submitted in the meantime.  A finished call that read "not registered" and
\* a sufficient balance has submitted its register message, and a finished
\* reputer call that read a stake S below MinStake has submitted its add-stake
\* message of MinStake - S, so that both calls may register and both may top up
\* by the same amount.
C12_NoSingleFlight ==
  \A p \in Procs :
    Done(p) =>
      /\ Funded(p) => Cardinality(Positions(p, "Register")) = 1
      /\ (IsReputerCall(p) /\ StakePhaseReached(p)
            /\ config[p].MinStake > StakeAtEntry(p)) =>
           /\ Cardinality(Positions(p, "AddStake")) = 1
           /\ \A i \in Positions(p, "AddStake") :
                trace[p][i].amount = config[p].MinStake - StakeAtEntry(p)
      /\ \A i \in Positions(p, "AddStake") :
           /\ StakePhaseReached(p)
           /\ trace[p][i].amount = config[p].MinStake - StakeAtEntry(p)

\* Both calls have read "not registered", both have submitted a register
\* message, both have read the same stake S below MinStake, both have
\* submitted an add-stake message of MinStake - S, and the stake on the ledger
\* is above MinStake.
C12_Witness ==
  /\ \A p \in Procs :
       /\ Done(p) /\ IsReputerCall(p)
       /\ trace[p][1].ok /\ ~trace[p][1].bval
       /\ Positions(p, "Register") # {}
       /\ StakePhaseReached(p)
       /\ \E i \in Positions(p, "AddStake") :
            trace[p][i].amount = config[p].MinStake - StakeAtEntry(p)
  /\ StakeAtEntry(1) = StakeAtEntry(2)
  /\ StakeOnLedger(config[1].TopicId, node.Chain.Address) > config[1].MinStake

\* The call of p has returned.
Finished(p) == p \in sched.live /\ pc[p] \in {"done", "idle"} /\ Len(trace[p]) > 0

\* What the finished call of p produced.
Observed(p) == [ret |-> result[p], writes |-> Writes(trace[p])]

\* The ledger before the two calls of SpecTopics: nothing registered, no stake,
\* and the funds not yet reduced by the fees of the registrations.
LedgerAtStart ==
  [reg |-> {}, stk |-> [k \in Addrs \X Topics |-> 0],
   funds |-> funds + registrationFee * Cardinality(registered), fee |-> registrationFee]

\* The outcome <<o1, o2>> of two calls run one after the other is what the two
\* concurrent calls p1 and p2 produced.
SameAs(o1, o2, p1, p2) ==
  /\ o1.ret = Observed(p1).ret /\ o1.writes = Observed(p1).writes
  /\ o2.ret = Observed(p2).ret /\ o2.writes = Observed(p2).writes
  /\ o2.ledger = Ledger

\* C17: every write of a call is for the topic and the role of the call, and
\* a worker call submits no add-stake message; every registration and every
\* stake on the ledger is that of the tuple of a call that submitted a message
\* for it; and two finished concurrent calls for different topics have produced
\* results, messages and a ledger that the two calls also produce when run one
\* after the other, in one of the two orders.
C17_WritesStayInsideTuple ==
  /\ \A p \in Procs : \A i \in DOMAIN trace[p] :
       IsWrite(trace[p][i]) =>
         /\ trace[p][i].topic = config[p].TopicId
         /\ trace[p][i].role = config[p].role
         /\ IsWorkerCall(p) => trace[p][i].kind = "Register"
  /\ \A e \in registered :
       \E p \in Procs : \E i \in Positions(p, "Register") :
         e = <<trace[p][i].owner, config[p].role, config[p].TopicId>>
  /\ \A k \in Addrs \X Topics :
       stakeOf[k] > 0 =>
         \E p \in Procs : \E i \in Positions(p, "AddStake") :
           /\ IsReputerCall(p) /\ k = <<trace[p][i].sender, config[p].TopicId>>
           /\ stakeOf[k] <= trace[p][i].amount
  /\ (Finished(1) /\ Finished(2)) =>
       \/ \E o \in OneAfterTheOther(config[1], config[2], LedgerAtStart) :
            SameAs(o[1], o[2], 1, 2)
       \/ \E o \in OneAfterTheOther(config[2], config[1], LedgerAtStart) :
            SameAs(o[1], o[2], 2, 1)

\* Two concurrent calls for different topics have both read the same balance,
\* sufficient for one registration only, and both have submitted a register
\* message; the first has returned true.
C17_Witness ==
  /\ Finished(1) /\ Finished(2)
  /\ config[1].TopicId # config[2].TopicId
  /\ \A p \in Procs :
       /\ Positions(p, "Register") # {}
       /\ \E i \in Positions(p, "GetBalance") :
            trace[p][i].ok /\ trace[p][i].nval = registrationFee
  /\ result[1] = TRUE /\ funds = 0

TypeOK ==
  /\ registered \subseteq Addrs \X Roles \X Topics
  /\ funds \in Funds
  /\ \A k \in Addrs \X Topics : stakeOf[k] \in Stakes
====
